---- MODULE Spec2Model ----
(***************************************************************************)
(* A model of two subsystems of msticpy:                                   *)
(*   - HttpTIProvider.lookup_ioc and its request builder                   *)
(*     (msticpy/context/tiproviders/http_provider.py), and                 *)
(*   - the Azure credential chain _az_connect_core and its cache           *)
(*     _AzCachedConnect (msticpy/auth/azure_auth_core.py).                 *)
(* Python objects are records; object identity is an allocation number in  *)
(* the field "id".  Python's None is the string "None".                    *)
(***************************************************************************)
EXTENDS Integers, Sequences, FiniteSets, TLC

VARIABLES
    request_params,  \* HttpTIProvider._request_params (set by __init__)
    cache,           \* the lru_cache of lookup_ioc: <<[key, res]>>, most recently used last
    nextId,          \* allocation counter of LookupResult objects
    call,            \* the last lookup_ioc call: arguments, what it did, how it ended
    recency,         \* the cached argument tuples in the order of their last use
    build,           \* one _substitute_parms call: provider, arguments, what it produced
    ctor,            \* one HttpTIProvider(**kwargs) call: class, options, how it ended
    strcall,         \* one string_empty call: argument, what it returned
    EXCLUDED,        \* the module global _EXCLUDED_AUTH
    az_credentials,  \* _AzCachedConnect.az_credentials
    cred_cloud,      \* _AzCachedConnect.cred_cloud
    az_settings,     \* the "Azure" section of the configuration
    available,       \* the credential sources that can yield a token
    instance,        \* _AzCachedConnect._instance
    root_handlers,   \* handlers of the root logger (filters installed by basicConfig)
    nextCred,        \* allocation counter of AzCredentials objects
    conn             \* the last connect call: arguments, what it did, how it ended

lookup_vars == <<request_params, cache, nextId, call, recency, build, ctor, strcall>>
auth_vars == <<EXCLUDED, az_credentials, cred_cloud, az_settings, available, instance,
               root_handlers, nextCred, conn>>
vars == <<request_params, cache, nextId, call, recency, build, ctor, strcall,
          EXCLUDED, az_credentials, cred_cloud, az_settings, available, instance,
          root_handlers, nextCred, conn>>

None == "None"

(***************************************************************************)
(* Bounds of the model.                                                    *)
(***************************************************************************)
\* LookupResult objects allocated in one behaviour (calls that miss the cache).
MaxResults == 3
\* Entries the lookup cache holds.  The source says lru_cache(maxsize=256);
\* the model keeps the policy and scales the size so that eviction happens.
CacheMaxsize == 2
\* Characters of the strings given to string_empty.
MaxStrLen == 4
\* AzCredentials objects created in one behaviour (runs of the credential chain).
MaxCreds == 3

(***************************************************************************)
(* Exceptions: the classes that can reach lookup_ioc's except clause, with *)
(* their base class.                                                       *)
(***************************************************************************)
ExcBase ==
    [e \in {"KeyError", "IndexError", "LookupError", "JSONDecodeError", "ValueError",
            "NotImplementedError", "RuntimeError", "ConnectionError", "OSError",
            "TypeError", "httpx.ConnectError", "httpx.ReadTimeout",
            "httpx.TimeoutException", "httpx.TransportError", "httpx.RequestError",
            "httpx.HTTPError", "Exception"} |->
        CASE e = "KeyError" -> "LookupError"
          [] e = "IndexError" -> "LookupError"
          [] e = "JSONDecodeError" -> "ValueError"
          [] e = "NotImplementedError" -> "RuntimeError"
          [] e = "ConnectionError" -> "OSError"
          [] e = "httpx.ConnectError" -> "httpx.TransportError"
          [] e = "httpx.ReadTimeout" -> "httpx.TimeoutException"
          [] e = "httpx.TimeoutException" -> "httpx.TransportError"
          [] e = "httpx.TransportError" -> "httpx.RequestError"
          [] e = "httpx.RequestError" -> "httpx.HTTPError"
          [] OTHER -> "Exception"]

RECURSIVE isinstance(_, _)
isinstance(e, cls) ==
    IF e = cls THEN TRUE
    ELSE IF e = "Exception" THEN FALSE
    ELSE isinstance(ExcBase[e], cls)

CaughtClasses_noverb == {"LookupError", "JSONDecodeError", "ConnectionError"}
\* The classes named by lookup_ioc's except clause.
CaughtClasses == {"LookupError", "JSONDecodeError", "NotImplementedError", "ConnectionError"}

Caught(e) == \E c \in CaughtClasses : isinstance(e, c)

(***************************************************************************)
(* Template strings.  A template string is a sequence of parts, a literal  *)
(* or a {placeholder}; str.format concatenates the literals and the values *)
(* of the placeholders and raises KeyError for a placeholder that the      *)
(* keyword arguments do not name.                                          *)
(***************************************************************************)
Lit(s) == [ph |-> FALSE, s |-> s]
Ph(s) == [ph |-> TRUE, s |-> s]

MissingKeys_none(tpl, ctx) == {}
\* The placeholders of tpl that ctx does not supply.
MissingKeys(tpl, ctx) ==
    {tpl[i].s : i \in {j \in DOMAIN tpl : tpl[j].ph /\ tpl[j].s \notin DOMAIN ctx}}

\* The text format produces once MissingKeys found nothing to raise for; a placeholder
\* without a value would stay in the text as it is written.
RECURSIVE format(_, _)
format(tpl, ctx) ==
    IF tpl = <<>> THEN ""
    ELSE (IF ~Head(tpl).ph THEN Head(tpl).s
          ELSE IF Head(tpl).s \in DOMAIN ctx THEN ctx[Head(tpl).s]
          ELSE "{" \o Head(tpl).s \o "}") \o format(Tail(tpl), ctx)

\* {key: val.format(**req_params) for key, val in d.items()}
DictMissing(d, ctx) == UNION {MissingKeys(d[k], ctx) : k \in DOMAIN d}
DictFormat(d, ctx) == [k \in DOMAIN d |-> format(d[k], ctx)]

\* tuple(p.format(**req_params) for p in src.auth_str)
SeqMissing(q, ctx) == UNION {MissingKeys(q[i], ctx) : i \in DOMAIN q}
SeqFormat(q, ctx) == [i \in DOMAIN q |-> format(q[i], ctx)]

EmptyDict == [k \in {} |-> ""]

(***************************************************************************)
(* The provider under test: a concrete subclass of HttpTIProvider, given   *)
(* by its class attributes.                                                *)
(***************************************************************************)
ClassName == "TestProvider"
_BASE_URL == "https://api.example"

IoCLookupParams(path, verb, full_url, headers, params, data, auth_type, auth_str) ==
    [path |-> path, verb |-> verb, full_url |-> full_url, headers |-> headers,
     params |-> params, data |-> data, auth_type |-> auth_type, auth_str |-> auth_str]

_IOC_QUERIES ==
    [k \in {"ipv4", "ipv4-geo", "dns", "url", "hostname"} |->
        CASE k = "ipv4" ->
                IoCLookupParams(<<Lit("/ip/"), Ph("observable")>>, "GET", FALSE,
                                EmptyDict, EmptyDict, EmptyDict, "", <<>>)
          [] k = "ipv4-geo" ->
                IoCLookupParams(<<Lit("/geo/"), Ph("observable")>>, "GET", FALSE,
                                EmptyDict, EmptyDict, EmptyDict,
                                "OAuth", << <<Ph("API_KEY")>> >>)
          [] k = "dns" ->
                IoCLookupParams(<<Lit("/dns")>>, "POST", FALSE,
                                EmptyDict, EmptyDict,
                                [name |-> <<Ph("observable")>>], "", <<>>)
          [] k = "url" ->
                IoCLookupParams(<<Lit("https://alt.example/"), Ph("observable")>>, "GET", TRUE,
                                [Accept |-> <<Lit("application/json")>>],
                                [id |-> <<Ph("API_ID")>>], EmptyDict, "", <<>>)
          [] k = "hostname" ->
                IoCLookupParams(<<Lit("/host/"), Ph("observable")>>, "GET", FALSE,
                                EmptyDict, EmptyDict, EmptyDict,
                                "HTTPBasic", << <<Ph("API_ID")>>, <<Ph("API_KEY")>> >>)]

\* mp_ua_header(): the default identifying header.
mp_ua_header == [x \in {"User-Agent"} |-> "MSTICPy"]

\* d1.update(d2) on dictionaries.
DictUpdate(d1, d2) ==
    [k \in DOMAIN d1 \cup DOMAIN d2 |-> IF k \in DOMAIN d2 THEN d2[k] ELSE d1[k]]

\* One optional entry of req_dict.
Entry(cond, key, val) == IF cond THEN [x \in {key} |-> val] ELSE [x \in {} |-> val]

NoException == [exc |-> None, msg |-> ""]
Raise(exc, msg) == [exc |-> exc, msg |-> msg]

(***************************************************************************)
(* The provider object as _substitute_parms reads it: the registry of      *)
(* templates, the base URL and the constructor's substitution values.      *)
(***************************************************************************)
Provider(defs, base, params) ==
    [ioc_query_defs |-> defs, _BASE_URL |-> base, _request_params |-> params]

\* Lines 212-217: the URL of the request.
url_context(src, value, req_params) ==
    IF src.full_url THEN [x \in {"observable"} |-> value] ELSE req_params

build_url_nobase(self, src, value, req_params) ==
    format(src.path, url_context(src, value, req_params))

build_url(self, src, value, req_params) ==
    IF src.full_url
    THEN format(src.path, url_context(src, value, req_params))
    ELSE self._BASE_URL \o format(src.path, url_context(src, value, req_params))

use_auth_always(src) == TRUE
\* Line 236: the auth fields are looked at only when both are set.
use_auth(src) == src.auth_type # "" /\ src.auth_str # <<>>

(***************************************************************************)
(* _substitute_parms: [exc, msg, verb, req_dict]; exc is None when the     *)
(* request was built.  The steps raise in the order of the code.           *)
(***************************************************************************)
_substitute_parms(self, value, value_type, query_type) ==
    LET req_params == DictUpdate([x \in {"observable"} |-> value], self._request_params)
        value_key == IF query_type # None THEN value_type \o "-" \o query_type
                     ELSE value_type
        has_src == value_key \in DOMAIN self.ioc_query_defs
        src == self.ioc_query_defs[value_key]
        url_missing == MissingKeys(src.path, url_context(src, value, req_params))
        hdr_missing == DictMissing(src.headers, req_params)
        par_missing == DictMissing(src.params, req_params)
        dat_missing == DictMissing(src.data, req_params)
        aut_missing == IF use_auth(src) THEN SeqMissing(src.auth_str, req_params) ELSE {}
        missing == IF url_missing # {} THEN url_missing
                   ELSE IF hdr_missing # {} THEN hdr_missing
                   ELSE IF par_missing # {} THEN par_missing
                   ELSE IF dat_missing # {} THEN dat_missing
                   ELSE aut_missing
        headers0 == DictFormat(src.headers, req_params)
        headers == IF "User-Agent" \notin DOMAIN headers0
                   THEN DictUpdate(headers0, mp_ua_header) ELSE headers0
        req_dict == Entry(TRUE, "headers", headers)
                    @@ Entry(TRUE, "url", build_url(self, src, value, req_params))
                    @@ Entry(DOMAIN src.params # {}, "params", DictFormat(src.params, req_params))
                    @@ Entry(DOMAIN src.data # {}, "data", DictFormat(src.data, req_params))
                    @@ Entry(use_auth(src), "auth", SeqFormat(src.auth_str, req_params))
    IN  IF ~has_src
        THEN Raise("LookupError", "Provider does not support this type " \o value_key \o ".")
             @@ [verb |-> None, req |-> EmptyDict]
        ELSE IF missing # {}
        THEN Raise("KeyError", CHOOSE m \in missing : TRUE)
             @@ [verb |-> None, req |-> EmptyDict]
        ELSE IF use_auth(src) /\ src.auth_type # "HTTPBasic"
        THEN Raise("NotImplementedError", "Unknown auth type " \o src.auth_type)
             @@ [verb |-> None, req |-> EmptyDict]
        ELSE NoException @@ [verb |-> src.verb, req |-> req_dict]

(***************************************************************************)
(* LookupResult (lookup_result.py) and the type-check step of the base     *)
(* class (ti_provider_base.py): a fresh result carries the observable, its *)
(* type and a status that is OK exactly when the observable passed the     *)
(* check; the other fields have their defaults.                            *)
(***************************************************************************)
LookupStatus == [OK |-> 0, NOT_SUPPORTED |-> 1, BAD_FORMAT |-> 2]

NoDetails == [kind |-> None, val |-> ""]
NoRaw == [kind |-> None, code |-> 0, text |-> ""]

_check_ioc_type(id, ioc, ioc_type, status) ==
    [id |-> id, ioc |-> ioc, safe_ioc |-> ioc, ioc_type |-> ioc_type, provider |-> None,
     status |-> status, result |-> FALSE, severity |-> "information",
     details |-> NoDetails, raw_result |-> NoRaw, reference |-> None]

\* _err_to_results(result, err): details = err.args, raw_result = type name + message.
_err_to_results(result, err) ==
    [result EXCEPT !.details = [kind |-> "args", val |-> err.msg],
                   !.raw_result = [kind |-> "error", code |-> 0,
                                   text |-> err.exc \o "\n" \o err.msg]]

\* http.client.responses, on the status codes of the model.
client_responses ==
    [c \in {200, 401, 403, 404, 500} |->
        CASE c = 200 -> "OK"
          [] c = 401 -> "Unauthorized"
          [] c = 403 -> "Forbidden"
          [] c = 404 -> "Not Found"
          [] c = 500 -> "Internal Server Error"]

_response_message_no403(status_code) ==
    IF status_code = 404 THEN "Not found."
    ELSE IF status_code = 401 THEN "Authorization failed. Check account and key details."
    ELSE IF status_code \in DOMAIN client_responses THEN client_responses[status_code]
    ELSE "Unknown HTTP status code."

_response_message(status_code) ==
    IF status_code = 404 THEN "Not found."
    ELSE IF status_code = 401 THEN "Authorization failed. Check account and key details."
    ELSE IF status_code = 403
    THEN "Request forbidden. Allowed query rate may have been exceeded."
    ELSE IF status_code \in DOMAIN client_responses THEN client_responses[status_code]
    ELSE "Unknown HTTP status code."

(***************************************************************************)
(* What the HTTP transport and the provider's parse_results can do for one *)
(* request: the transport raises, or answers with a status code and a body *)
(* that is JSON or not; parse_results (abstract in HttpTIProvider) returns *)
(* a hit or a miss, or raises.                                             *)
(***************************************************************************)
TransportErrors == {"ConnectionError", "httpx.ConnectError", "httpx.ReadTimeout"}
StatusCodes == {200, 401, 403, 404, 500, 599}
ParseOutcomes == {"hit", "KeyError", "TypeError"}

\* No request was sent.
NoResponse == [raises |-> None, status_code |-> 0, body |-> "none", parse |-> "none"]

Responses ==
    [raises : TransportErrors, status_code : {0}, body : {"none"}, parse : {"none"}]
    \cup [raises : {None}, status_code : StatusCodes \ {200}, body : {"text"}, parse : {"none"}]
    \cup [raises : {None}, status_code : {200}, body : {"text"}, parse : {"none"}]
    \cup [raises : {None}, status_code : {200}, body : {"json"}, parse : ParseOutcomes]

\* How a call ends: it returns res, or exc propagates to the caller.
Returned(res, built, sent) ==
    [outcome |-> "returned", exc |-> None, res |-> res, built |-> built, sent |-> sent]
Raised(exc, res, built, sent) ==
    [outcome |-> "raised", exc |-> exc, res |-> res, built |-> built, sent |-> sent]

except_clause_noref(result, req_params, err, built, sent) ==
    IF ~Caught(err.exc) THEN Raised(err.exc, result, built, sent)
    ELSE Returned(_err_to_results(result, err), built, sent)

\* The except clause of lookup_ioc (lines 167-177) for the exception err raised in
\* the try block with result and req_params as they were when it was raised.
except_clause(result, req_params, err, built, sent) ==
    IF ~Caught(err.exc) THEN Raised(err.exc, result, built, sent)
    ELSE LET r1 == _err_to_results(result, err)
             url == IF DOMAIN req_params # {} /\ "url" \in DOMAIN req_params
                    THEN req_params["url"] ELSE None
             r2 == IF ~isinstance(err.exc, "LookupError")
                   THEN [r1 EXCEPT !.reference = url] ELSE r1
         IN  Returned(r2, built, sent)

ok_branch_uncaught(result, req_params, resp) ==
    IF resp.body # "json"
    THEN except_clause([result EXCEPT !.raw_result = [kind |-> "json", code |-> 0, text |-> ""]],
                       req_params, Raise("JSONDecodeError", "Expecting value"), TRUE, TRUE)
    ELSE Returned([result EXCEPT !.result = (resp.parse = "hit"),
                                 !.status = LookupStatus.OK], TRUE, TRUE)

\* The branch for HTTP 200 (lines 150-161).
ok_branch(result, req_params, resp) ==
    IF resp.body # "json"
    THEN \* response.json() raises JSONDecodeError, handled by the inner except
         Returned([result EXCEPT
                      !.raw_result = [kind |-> "parse_problem", code |-> 0,
                                      text |-> "There was a problem parsing results from this lookup"],
                      !.result = FALSE,
                      !.severity = "information",
                      !.details = [kind |-> "dict", val |-> ""],
                      !.status = LookupStatus.OK], TRUE, TRUE)
    ELSE LET r1 == [result EXCEPT !.raw_result = [kind |-> "json", code |-> 0, text |-> ""]]
         IN  IF resp.parse \in {"hit", "miss"}
             THEN Returned([r1 EXCEPT
                              !.result = (resp.parse = "hit"),
                              !.severity = IF resp.parse = "hit" THEN "high" ELSE "information",
                              !.details = [kind |-> "parsed", val |-> resp.parse],
                              !.status = LookupStatus.OK], TRUE, TRUE)
             ELSE except_clause(r1, req_params, Raise(resp.parse, "parse_results"), TRUE, TRUE)

\* The branch for every other status code (lines 162-165).
error_branch(result) ==
    [result EXCEPT !.raw_result = [kind |-> "response", code |-> result.status,
                                   text |-> "<Response>"],
                   !.result = FALSE,
                   !.details = [kind |-> "text", val |-> _response_message(result.status)]]

\* The try block of lookup_ioc (lines 137-166) on the result of a passed type check.
try_block(result, query_type, resp) ==
    LET built == _substitute_parms(Provider(_IOC_QUERIES, _BASE_URL, request_params),
                                   result.safe_ioc, result.ioc_type, query_type)
    IN  IF built.exc # None
        THEN except_clause(result, EmptyDict, built, FALSE, FALSE)
        ELSE IF built.verb # "GET"
        THEN except_clause(result, built.req,
                           Raise("NotImplementedError", "Unsupported verb " \o built.verb),
                           TRUE, FALSE)
        ELSE IF resp.raises # None
        THEN except_clause(result, built.req, Raise(resp.raises, "transport"), TRUE, TRUE)
        ELSE LET r1 == [result EXCEPT !.status = resp.status_code,
                                      !.reference = built.req["url"]]
             IN  IF r1.status = 200
                 THEN ok_branch(r1, built.req, resp)
                 ELSE Returned(error_branch(r1), TRUE, TRUE)

\* Line 134: the type check failed.
check_failed_never(result) == FALSE
check_failed(result) == result.status # LookupStatus.OK

\* The body of lookup_ioc (lines 129-177), run on a cache miss.
lookup_body(id, a, chk, resp) ==
    LET r0 == _check_ioc_type(id, a.ioc, a.ioc_type, chk)
        provider_name == IF \E kw \in a.kwargs : kw[1] = "provider_name"
                         THEN (CHOOSE kw \in a.kwargs : kw[1] = "provider_name")[2]
                         ELSE ClassName
        result == [r0 EXCEPT !.provider = provider_name]
    IN  IF check_failed(result) THEN Returned(result, FALSE, FALSE)
        ELSE try_block(result, a.query_type, resp)

(***************************************************************************)
(* functools.lru_cache(maxsize) around lookup_ioc: the key is the argument *)
(* tuple; a hit returns the stored object and makes the entry the most     *)
(* recently used; a miss runs the function and stores what it returned,    *)
(* evicting the least recently used entry when the cache is full.  A call  *)
(* that raises stores nothing.                                             *)
(***************************************************************************)
lru_find_never(c, key) == 0
lru_find(c, key) ==
    IF \E i \in DOMAIN c : c[i].key = key
    THEN CHOOSE i \in DOMAIN c : c[i].key = key
    ELSE 0

lru_touch_none(c, i) == c
lru_touch(c, i) ==
    [j \in 1..Len(c) |-> IF j < i THEN c[j] ELSE IF j < Len(c) THEN c[j + 1] ELSE c[i]]

lru_put(c, key, res) ==
    IF Len(c) >= CacheMaxsize
    THEN Append(Tail(c), [key |-> key, res |-> res])
    ELSE Append(c, [key |-> key, res |-> res])

\* The id of the result that lru_put(c, ...) drops from c, 0 when it drops none.
lru_evicted(c) == IF Len(c) >= CacheMaxsize /\ c # <<>> THEN Head(c).res.id ELSE 0

\* The calls the callers of the model make.
Args(ioc, ioc_type, query_type, kwargs) ==
    [ioc |-> ioc, ioc_type |-> ioc_type, query_type |-> query_type, kwargs |-> kwargs]

LookupArgs ==
    { Args("1.2.3.4", "ipv4", None, {}),
      Args("1.2.3.4", "ipv4", "geo", {}),
      Args("evil.example", "dns", None, {}),
      Args("http://evil.example/", "url", None, {}),
      Args("0123abcd", "file_hash", None, {}),
      Args("0123abcd", "file_hash", None, {<<"provider_name", "Alt">>}) }

\* The record of a call: its arguments, whether the cache answered it, what the type
\* check and the transport answered (when they were asked), and how it ended.
NoCall ==
    [args |-> Args(None, None, None, {}), hit |-> FALSE, checked |-> LookupStatus.OK,
     resp |-> NoResponse, evicted |-> 0, outcome |-> None, exc |-> None,
     res |-> _check_ioc_type(0, None, None, LookupStatus.OK), built |-> FALSE, sent |-> FALSE]

(***************************************************************************)
(* Python strings where their characters matter.  A str is the sequence of *)
(* its characters (a run of characters that are not whitespace may stand   *)
(* as one element); None is the only value of NoneType.                    *)
(***************************************************************************)
Whitespace == {" ", "\t"}
PyStr(chars) == [type |-> "str", val |-> chars]
PyNone == [type |-> "NoneType", val |-> <<>>]

\* bool(x) for a str or None.
bool(x) == x.type = "str" /\ x.val # <<>>

\* str.strip(): leading and trailing whitespace removed.
RECURSIVE lstrip(_)
lstrip(chars) ==
    IF chars # <<>> /\ Head(chars) \in Whitespace THEN lstrip(Tail(chars)) ELSE chars
RECURSIVE rstrip(_)
rstrip(chars) ==
    IF chars # <<>> /\ chars[Len(chars)] \in Whitespace
    THEN rstrip(SubSeq(chars, 1, Len(chars) - 1)) ELSE chars
strip(x) == PyStr(rstrip(lstrip(x.val)))

\* The text of a str or of None, as a template value.
RECURSIVE str_value(_)
str_value(x) ==
    IF x.type = "NoneType" THEN None
    ELSE IF x.val = <<>> THEN ""
    ELSE Head(x.val) \o str_value(PyStr(Tail(x.val)))

\* __init__ (lines 64-87): the provider of the model is constructed with AuthKey
\* and without ApiID.
CtorKwargs == [AuthKey |-> PyStr(<<"key1">>)]

init_request_params_truthy(kwargs) ==
    Entry("ApiID" \in DOMAIN kwargs /\ bool(kwargs["ApiID"]), "API_ID",
          str_value(strip(kwargs["ApiID"])))
    @@ Entry("AuthKey" \in DOMAIN kwargs /\ bool(kwargs["AuthKey"]), "API_KEY",
             str_value(strip(kwargs["AuthKey"])))

\* Lines 69-75: api_id.strip() if api_id else None, and the same for AuthKey.
init_request_params(kwargs) ==
    Entry("ApiID" \in DOMAIN kwargs, "API_ID",
          IF bool(kwargs["ApiID"]) THEN str_value(strip(kwargs["ApiID"])) ELSE None)
    @@ Entry("AuthKey" \in DOMAIN kwargs, "API_KEY",
             IF bool(kwargs["AuthKey"]) THEN str_value(strip(kwargs["AuthKey"])) ELSE None)

\* ", ".join(f"'{param}'" for param in missing_params)
RECURSIVE param_list(_)
param_list(missing) ==
    IF missing = <<>> THEN ""
    ELSE "'" \o Head(missing) \o "'"
         \o (IF Tail(missing) = <<>> THEN "" ELSE ", " \o param_list(Tail(missing)))

\* HttpTIProvider.__init__ (lines 64-87) of the class cls (its name and its
\* _REQUIRED_PARAMS) with the options kwargs: the exception it raises (None if none),
\* the exception's arguments, and _request_params.
__init__(cls, kwargs) ==
    LET params == init_request_params(kwargs)
        is_missing(param) == param \notin DOMAIN params
        missing_params == SelectSeq(cls._REQUIRED_PARAMS, is_missing)
    IN  IF missing_params # <<>>
        THEN [exc |-> "MsticpyConfigException",
              args |-> <<"Parameter values missing for Provider '" \o cls.name \o "'",
                         "Missing parameters are: " \o param_list(missing_params)>>,
              params |-> params]
        ELSE [exc |-> None, args |-> <<>>, params |-> params]

\* The classes, the option values and the options of the constructor calls.
RequiredLists ==
    { <<>>, <<"API_KEY">>, <<"API_ID">>, <<"API_ID", "API_KEY">>, <<"API_KEY", "API_ID">> }
ProviderClasses == [name : {ClassName}, _REQUIRED_PARAMS : RequiredLists]
OptionValues ==
    { PyNone, PyStr(<<>>), PyStr(<<" ">>), PyStr(<<"id1">>), PyStr(<<" ", "id1", "\t">>) }
OptionSets == UNION {[names -> OptionValues] : names \in SUBSET {"ApiID", "AuthKey"}}

NoCtorOut == [exc |-> None, args |-> <<>>, params |-> EmptyDict]
CtorCalls == [cls : ProviderClasses, kwargs : OptionSets, done : {FALSE}, out : {NoCtorOut}]
\* No constructor call is being looked at.
NoCtor ==
    [cls |-> [name |-> ClassName, _REQUIRED_PARAMS |-> <<>>], kwargs |-> CtorKwargs,
     done |-> TRUE, out |-> NoCtorOut]

\* HttpTIProvider(**kwargs) with the drawn class and options.
construct_provider ==
    /\ ~ctor.done
    /\ ctor' = [ctor EXCEPT !.done = TRUE, !.out = __init__(ctor.cls, ctor.kwargs)]
    /\ request_params' = __init__(ctor.cls, ctor.kwargs).params
    /\ UNCHANGED <<cache, nextId, call, recency, build, strcall>>
    /\ UNCHANGED auth_vars

(***************************************************************************)
(* string_empty (msticpy/common/utility/format.py, lines 69-72).           *)
(***************************************************************************)
string_empty(string) ==
    ~(bool(string) \/ (string.type = "str" /\ bool(strip(string))))

\* The arguments of the calls: None and every string of at most MaxStrLen characters
\* over a blank, a tab and a letter.
Chars == {" ", "\t", "a"}
StringArgs ==
    {PyNone} \cup {PyStr(q) : q \in UNION {[1..n -> Chars] : n \in 0..MaxStrLen}}

\* No string_empty call is being looked at.
NoStrCall == [arg |-> PyNone, done |-> TRUE, ret |-> FALSE]

call_string_empty ==
    /\ ~strcall.done
    /\ strcall' = [strcall EXCEPT !.done = TRUE, !.ret = string_empty(strcall.arg)]
    /\ UNCHANGED <<request_params, cache, nextId, call, recency, build, ctor>>
    /\ UNCHANGED auth_vars

\* What the type check answers in the model.
CheckOutcomes == {LookupStatus.OK, LookupStatus.BAD_FORMAT}

\* Whether the call reaches the transport: only then does its answer matter.
sends(a, chk) == lookup_body(0, a, chk, NoResponse).sent

\* The history of the cache's use: the cached argument tuples, the one used longest
\* ago first.  A call that returns is the latest use of its tuple; a tuple that left
\* the cache leaves the history.
RECURSIVE without(_, _)
without(q, k) ==
    IF q = <<>> THEN <<>>
    ELSE IF Head(q) = k THEN without(Tail(q), k)
    ELSE <<Head(q)>> \o without(Tail(q), k)
RECURSIVE only_cached(_, _)
only_cached(q, c) ==
    IF q = <<>> THEN <<>>
    ELSE IF \E i \in DOMAIN c : c[i].key = Head(q)
    THEN <<Head(q)>> \o only_cached(Tail(q), c)
    ELSE only_cached(Tail(q), c)
last_used(q, a, returned, c) ==
    only_cached(IF returned THEN Append(without(q, a), a) ELSE q, c)

(***************************************************************************)
(* The build step on its own: _substitute_parms is a function of the       *)
(* provider (its templates, base URL and constructor values) and of the    *)
(* call's arguments.  The providers below register one template for ipv4,  *)
(* drawn from every combination of the fields a template has.              *)
(***************************************************************************)
TemplatePaths ==
    { <<Lit("/ip/"), Ph("observable")>>,
      <<Lit("/k/"), Ph("API_KEY"), Lit("/"), Ph("observable")>>,
      <<Lit("/id/"), Ph("API_ID"), Lit("/"), Ph("observable")>>,
      <<Lit("/list")>> }
TemplateHeaders == { EmptyDict, [x \in {"X-Key"} |-> <<Ph("API_KEY")>>] }
TemplateParams == { EmptyDict, [id |-> <<Ph("API_ID")>>] }
TemplateData == { EmptyDict, [q |-> <<Ph("observable")>>] }
TemplateAuthTypes == { "", "HTTPBasic", "OAuth" }
TemplateAuthStrs == { <<>>, << <<Ph("API_ID")>>, <<Ph("API_KEY")>> >>, << <<Ph("API_KEY")>> >> }

Templates ==
    [path : TemplatePaths, verb : {"GET", "POST"}, full_url : BOOLEAN,
     headers : TemplateHeaders, params : TemplateParams, data : TemplateData,
     auth_type : TemplateAuthTypes, auth_str : TemplateAuthStrs]

BaseUrls == { "https://api.example", "https://api.example/" }
CtorKwargsSet ==
    { [AuthKey |-> PyStr(<<"key1">>)],
      [AuthKey |-> PyStr(<<"key1">>), ApiID |-> PyStr(<<"id1">>)] }

Providers ==
    { Provider([x \in {"ipv4"} |-> t], b, init_request_params(kw)) :
        t \in Templates, b \in BaseUrls, kw \in CtorKwargsSet }

NoOut == NoException @@ [verb |-> None, req |-> EmptyDict]

BuildCalls ==
    [self : Providers, value : {"1.2.3.4"}, value_type : {"ipv4", "dns"},
     query_type : {None}, done : {FALSE}, out : {NoOut}]

\* No build call is being looked at.
NoBuild ==
    [self |-> Provider(_IOC_QUERIES, _BASE_URL, init_request_params(CtorKwargs)),
     value |-> None, value_type |-> None, query_type |-> None, done |-> FALSE, out |-> NoOut]

\* The call of _substitute_parms (line 139) with the drawn provider and arguments.
build_request ==
    /\ ~build.done
    /\ build.value # None
    /\ build' = [build EXCEPT !.done = TRUE,
                              !.out = _substitute_parms(build.self, build.value,
                                                        build.value_type, build.query_type)]
    /\ UNCHANGED <<request_params, cache, nextId, call, recency, ctor, strcall>>
    /\ UNCHANGED auth_vars

(***************************************************************************)
(* lookup_ioc(a): one call of the memoized method.                         *)
(***************************************************************************)
lookup_ioc(a) ==
    LET i == lru_find(cache, a)
    IN  /\ IF i # 0
           THEN /\ call' = [args |-> a, hit |-> TRUE, checked |-> LookupStatus.OK,
                            resp |-> NoResponse, evicted |-> 0]
                           @@ Returned(cache[i].res, FALSE, FALSE)
                /\ cache' = lru_touch(cache, i)
                /\ UNCHANGED nextId
           ELSE /\ nextId < MaxResults
                /\ \E chk \in CheckOutcomes :
                   \E resp \in IF sends(a, chk) THEN Responses ELSE {NoResponse} :
                      LET end == lookup_body(nextId + 1, a, chk, resp)
                      IN  /\ call' = [args |-> a, hit |-> FALSE, checked |-> chk,
                                       resp |-> resp,
                                       evicted |-> IF end.outcome = "returned"
                                                   THEN lru_evicted(cache) ELSE 0] @@ end
                          /\ cache' = IF end.outcome = "returned"
                                      THEN lru_put(cache, a, end.res)
                                      ELSE cache
                /\ nextId' = nextId + 1
        /\ recency' = last_used(recency, a, call'.outcome = "returned", cache')
        /\ UNCHANGED <<request_params, build, ctor, strcall>>
        /\ UNCHANGED auth_vars

(***************************************************************************)
(* Azure authentication: configuration.                                    *)
(***************************************************************************)
Sources == {"cli", "env", "msi", "vscode", "powershell", "interactive", "cache"}

\* _EXCLUDED_AUTH as the module is loaded (lines 40-48).
_EXCLUDED_AUTH == [s \in Sources |-> TRUE]

get_azure_config_value(key, default) ==
    IF key \in DOMAIN az_settings THEN az_settings[key] ELSE default

default_auth_methods == get_azure_config_value("auth_methods", <<"cli", "msi", "interactive">>)

\* AzureCloudConfig(cloud).cloud
AzureCloudConfig_cloud(cloud) ==
    IF cloud # None THEN cloud ELSE get_azure_config_value("cloud", "global")

\* AzureCloudConfig(cloud).token_uri: the resource manager of the cloud + ".default".
token_uri(cloud) == "https://management." \o cloud \o "/.default"

\* The sources DefaultAzureCredential enables when it is given no exclude_* argument:
\* all but the interactive browser.
SdkDefaultExcluded == [s \in Sources |-> s = "interactive"]

ToSet(q) == {q[i] : i \in DOMAIN q}

\* The keyword arguments a caller gives for the cloud.
CloudKwargs ==
    { [x \in {} |-> ""], [cloud |-> "usgov"], [region |-> "global"] }

\* The auth_methods arguments of the model.  NoMethods is the argument left out
\* (None) or the empty list: "if auth_methods:" takes both the same way.
NoMethods == <<>>
AuthMethodArgs == { NoMethods, <<"cli">>, <<"msi">> }

ConnArgs(auth_methods, kwargs, silent) ==
    [auth_methods |-> auth_methods, kwargs |-> kwargs, silent |-> silent]

ConnectCalls == [auth_methods : AuthMethodArgs, kwargs : CloudKwargs, silent : BOOLEAN]

NoCred ==
    [id |-> 0,
     legacy |-> [wraps |-> 0, resource_id |-> None],
     modern |-> [cred |-> 0, enabled |-> {}, authority |-> None]]

\* CredentialWrapper(creds, resource_id) (msticpy/auth/cred_wrapper.py): the
\* legacy-protocol handle for the same credential.
CredentialWrapper(creds, resource_id) == [wraps |-> creds.cred, resource_id |-> resource_id]

\* bool(creds) at line 245: creds is the DefaultAzureCredential object just
\* constructed; an object without __bool__ or __len__ is true.
creds_truthy(creds) == TRUE

(***************************************************************************)
(* _az_connect_core (lines 148-248) as a function of the globals it reads: *)
(* the new _EXCLUDED_AUTH, the new root handlers, the exception it raises  *)
(* (None if none) and the pair it returns.                                 *)
(***************************************************************************)
_az_connect_core(a, excluded, handlers, id) ==
    LET cloud == IF "cloud" \in DOMAIN a.kwargs THEN a.kwargs["cloud"]
                 ELSE IF "region" \in DOMAIN a.kwargs THEN a.kwargs["region"]
                 ELSE AzureCloudConfig_cloud(None)
        use_list == a.auth_methods # NoMethods
        excluded1 == IF use_list
                     THEN [s \in Sources |->
                             IF s \in ToSet(a.auth_methods) THEN FALSE ELSE excluded[s]]
                     ELSE excluded
        enabled == IF use_list
                   THEN {s \in Sources : ~excluded1[s]}
                   ELSE {s \in Sources : ~SdkDefaultExcluded[s]} \cup {"interactive"}
        creds == [cred |-> id, enabled |-> enabled, authority |-> cloud]
        filter == IF a.silent THEN "_filter_all_warnings" ELSE "_filter_credential_warning"
        \* logging.basicConfig does nothing when the root logger has handlers
        handlers1 == IF handlers = <<>> THEN <<filter>> ELSE handlers
        legacy_creds == CredentialWrapper(creds, token_uri(cloud))
    IN  [excluded |-> excluded1, handlers |-> handlers1,
         exc |-> IF ~creds_truthy(creds) THEN "CloudError" ELSE None,
         pair |-> [id |-> id, legacy |-> legacy_creds, modern |-> creds]]

(***************************************************************************)
(* modern.get_token(token_uri) (azure.identity): the chain asks its        *)
(* sources in turn; it raises when none of them yields a token, and else   *)
(* returns a token whose expires_on lies delta after the present time.     *)
(***************************************************************************)
get_token(creds, delta) ==
    IF creds.enabled \cap available = {}
    THEN [exc |-> "ClientAuthenticationError", expires_in |-> 0]
    ELSE [exc |-> None, expires_in |-> delta]

(***************************************************************************)
(* The warnings of a token request and the filters of lines 308-332.  Each *)
(* source of the chain that fails logs a WARNING on the logger             *)
(* azure.identity, "<Credential>.get_token failed"; the chain asks its     *)
(* sources in the order below and stops at the first that yields a token.  *)
(***************************************************************************)
ChainOrder == <<"env", "msi", "cache", "vscode", "cli", "powershell", "interactive">>

CredentialClass ==
    [s \in Sources |->
        CASE s = "env" -> "EnvironmentCredential"
          [] s = "msi" -> "ManagedIdentityCredential"
          [] s = "cache" -> "SharedTokenCacheCredential"
          [] s = "vscode" -> "VisualStudioCodeCredential"
          [] s = "cli" -> "AzureCliCredential"
          [] s = "powershell" -> "AzurePowerShellCredential"
          [] s = "interactive" -> "InteractiveBrowserCredential"]

\* The sources of creds that are asked and fail.
failed_sources(creds) ==
    {ChainOrder[i] : i \in {j \in DOMAIN ChainOrder :
        /\ ChainOrder[j] \in creds.enabled \ available
        /\ \A k \in 1..(j - 1) : ChainOrder[k] \notin creds.enabled \cap available}}

\* The log record of a failed source; the message is kept as its leading class name
\* and the rest of the text.
warning_record(s) ==
    [name |-> "azure.identity", levelname |-> "WARNING", source |-> s,
     message |-> [starts |-> CredentialClass[s], rest |-> ".get_token failed"]]

\* _filter_credential_warning (lines 308-323): what it prints (None for nothing) and
\* whether it lets the record pass.
_filter_credential_warning(record) ==
    IF record.name = "azure.identity" /\ record.levelname = "WARNING"
    THEN [printed |->
            IF record.message.rest # ".get_token failed" THEN None
            ELSE IF record.message.starts = "EnvironmentCredential"
            THEN "Unable to sign-in with environment variable credentials."
            ELSE IF record.message.starts = "AzureCliCredential"
            THEN "Unable to sign-in with Azure CLI credentials."
            ELSE IF record.message.starts = "ManagedIdentityCredential"
            THEN "Unable to sign-in with Managed Instance credentials."
            ELSE None,
          passes |-> FALSE]
    ELSE [printed |-> None, passes |-> TRUE]

\* _filter_all_warnings (lines 326-332).
_filter_all_warnings(record) ==
    IF record.name = "azure.identity" /\ record.levelname = "WARNING"
       /\ record.message.rest = ".get_token failed"
    THEN [printed |-> None, passes |-> FALSE]
    ELSE [printed |-> None, passes |-> TRUE]

\* What one record makes the process write: the text a filter prints, and the raw
\* record where it reaches a stream (through the handler whose filter lets it pass,
\* or through logging's handler of last resort when the root logger has no handler).
Diag(s, kind, text) == [source |-> s, kind |-> kind, text |-> text]
emit(handlers, record) ==
    IF handlers = <<>>
    THEN {Diag(record.source, "raw", record.message.starts \o record.message.rest)}
    ELSE LET f == IF handlers[1] = "_filter_all_warnings"
                  THEN _filter_all_warnings(record)
                  ELSE _filter_credential_warning(record)
         IN  (IF f.printed # None THEN {Diag(record.source, "short", f.printed)} ELSE {})
             \cup (IF f.passes
                   THEN {Diag(record.source, "raw",
                              record.message.starts \o record.message.rest)}
                   ELSE {})

\* Everything a token request on creds writes.
diagnostics(handlers, creds) ==
    UNION {emit(handlers, warning_record(s)) : s \in failed_sources(creds)}

\* The cloud a connect call asks for (lines 289-291).
requested_cloud(a) ==
    IF "cloud" \in DOMAIN a.kwargs THEN a.kwargs["cloud"]
    ELSE IF "region" \in DOMAIN a.kwargs THEN a.kwargs["region"]
    ELSE AzureCloudConfig_cloud(None)

NoConn ==
    [kind |-> None, args |-> ConnArgs(NoMethods, [x \in {} |-> ""], FALSE),
     prior |-> NoCred, expired |-> FALSE, requested |-> None, runs |-> 0,
     chains |-> <<>>, failed |-> {}, diag |-> {},
     outcome |-> None, exc |-> None, ret |-> NoCred]

\* The state a connect call starts from or ends in, as far as it touches it.
AuthState(excluded, handlers, cred, n) ==
    [excluded |-> excluded, handlers |-> handlers, cred |-> cred, n |-> n,
     chains |-> <<>>, exc |-> None]

\* One run of _az_connect_core from st, storing the pair in az_credentials.
run_chain(a, st) ==
    LET r == _az_connect_core(a, st.excluded, st.handlers, st.n + 1)
    IN  [excluded |-> r.excluded, handlers |-> r.handlers,
         cred |-> IF r.exc = None THEN r.pair ELSE st.cred,
         n |-> st.n + 1,
         chains |-> Append(st.chains, r.pair.modern.enabled),
         exc |-> r.exc]

\* Line 279-286: the token has passed its expiry.
token_expired(tok) == tok.expires_in <= 0

\* Line 289-291: the cloud changed.
cloud_changed(a) == cred_cloud # requested_cloud(a)

\* _AzCachedConnect.connect (lines 273-293) from st; tok is what get_token answers.
connect_body(a, st, tok) ==
    IF st.cred = NoCred THEN run_chain(a, st)
    ELSE IF tok.exc # None THEN [st EXCEPT !.exc = tok.exc]
    ELSE LET st1 == IF token_expired(tok) THEN run_chain(a, st) ELSE st
         IN  IF st1.exc # None THEN st1
             ELSE IF cloud_changed(a) THEN run_chain(a, st1) ELSE st1

connect(a) ==
    /\ instance # 0
    /\ \E delta \in IF az_credentials = NoCred
                     \/ az_credentials.modern.enabled \cap available = {}
                  THEN {0} ELSE -1..1 :
          LET st == AuthState(EXCLUDED, root_handlers, az_credentials, nextCred)
              tok == get_token(az_credentials.modern, delta)
              end == connect_body(a, st, tok)
          IN  /\ end.n <= MaxCreds
              /\ EXCLUDED' = end.excluded
              /\ root_handlers' = end.handlers
              /\ az_credentials' = end.cred
              /\ nextCred' = end.n
              /\ conn' = [kind |-> "connect", args |-> a, prior |-> az_credentials,
                          expired |-> (az_credentials # NoCred /\ tok.exc = None
                                       /\ token_expired(tok)),
                          requested |-> requested_cloud(a),
                          runs |-> Len(end.chains), chains |-> end.chains,
                          failed |-> IF az_credentials = NoCred THEN {}
                                     ELSE failed_sources(az_credentials.modern),
                          diag |-> IF az_credentials = NoCred THEN {}
                                   ELSE diagnostics(root_handlers, az_credentials.modern),
                          outcome |-> IF end.exc = None THEN "returned" ELSE "raised",
                          exc |-> end.exc,
                          ret |-> IF end.exc = None THEN end.cred ELSE NoCred]
    /\ UNCHANGED <<cred_cloud, az_settings, available, instance>>
    /\ UNCHANGED lookup_vars

\* az_connect_core(...): the chain called directly, without the cache.
az_connect_core(a) ==
    /\ nextCred < MaxCreds
    /\ LET r == _az_connect_core(a, EXCLUDED, root_handlers, nextCred + 1)
       IN  /\ EXCLUDED' = r.excluded
           /\ root_handlers' = r.handlers
           /\ nextCred' = nextCred + 1
           /\ conn' = [kind |-> "core", args |-> a, prior |-> NoCred, expired |-> FALSE,
                       requested |-> requested_cloud(a), runs |-> 1,
                       chains |-> <<r.pair.modern.enabled>>,
                       failed |-> {}, diag |-> {},
                       outcome |-> IF r.exc = None THEN "returned" ELSE "raised",
                       exc |-> r.exc,
                       ret |-> IF r.exc = None THEN r.pair ELSE NoCred]
    /\ UNCHANGED <<az_credentials, cred_cloud, az_settings, available, instance>>
    /\ UNCHANGED lookup_vars

\* _AzCachedConnect(): __new__ (lines 256-261) returns the one instance, creating it
\* the first time, and Python then runs __init__ (lines 263-266) on it.
AzCachedConnect ==
    /\ instance' = 1
    /\ az_credentials' = NoCred
    /\ cred_cloud' = AzureCloudConfig_cloud(None)
    /\ conn' = [NoConn EXCEPT !.kind = "construct"]
    /\ UNCHANGED <<EXCLUDED, az_settings, available, root_handlers, nextCred>>
    /\ UNCHANGED lookup_vars

AzSettings ==
    { [x \in {} |-> ""], [auth_methods |-> <<"env", "cli">>, cloud |-> "usgov"] }
Available == { {}, {"cli"} }

(***************************************************************************)
(* The specifications.  SpecLookup lets the provider run with the          *)
(* credential cache at rest, SpecAuth the reverse; Spec runs both.         *)
(***************************************************************************)
Init ==
    /\ request_params = init_request_params(CtorKwargs)
    /\ cache = <<>> /\ nextId = 0 /\ call = NoCall /\ recency = <<>> /\ build = NoBuild
    /\ ctor = NoCtor /\ strcall = NoStrCall
    /\ EXCLUDED = _EXCLUDED_AUTH /\ az_credentials = NoCred /\ cred_cloud = None
    /\ az_settings \in AzSettings /\ available \in Available /\ instance = 0
    /\ root_handlers = <<>> /\ nextCred = 0 /\ conn = NoConn

InitLookup ==
    /\ request_params = init_request_params(CtorKwargs)
    /\ cache = <<>> /\ nextId = 0 /\ call = NoCall /\ recency = <<>> /\ build = NoBuild
    /\ ctor = NoCtor /\ strcall = NoStrCall
    /\ EXCLUDED = _EXCLUDED_AUTH /\ az_credentials = NoCred /\ cred_cloud = None
    /\ az_settings = [x \in {} |-> ""] /\ available = {} /\ instance = 0
    /\ root_handlers = <<>> /\ nextCred = 0 /\ conn = NoConn

InitBuild ==
    /\ request_params = init_request_params(CtorKwargs)
    /\ cache = <<>> /\ nextId = 0 /\ call = NoCall /\ recency = <<>> /\ build \in BuildCalls
    /\ ctor = NoCtor /\ strcall = NoStrCall
    /\ EXCLUDED = _EXCLUDED_AUTH /\ az_credentials = NoCred /\ cred_cloud = None
    /\ az_settings = [x \in {} |-> ""] /\ available = {} /\ instance = 0
    /\ root_handlers = <<>> /\ nextCred = 0 /\ conn = NoConn

InitCtor ==
    /\ request_params = EmptyDict
    /\ cache = <<>> /\ nextId = 0 /\ call = NoCall /\ recency = <<>> /\ build = NoBuild
    /\ ctor \in CtorCalls /\ strcall = NoStrCall
    /\ EXCLUDED = _EXCLUDED_AUTH /\ az_credentials = NoCred /\ cred_cloud = None
    /\ az_settings = [x \in {} |-> ""] /\ available = {} /\ instance = 0
    /\ root_handlers = <<>> /\ nextCred = 0 /\ conn = NoConn

InitFormat ==
    /\ request_params = init_request_params(CtorKwargs)
    /\ cache = <<>> /\ nextId = 0 /\ call = NoCall /\ recency = <<>> /\ build = NoBuild
    /\ ctor = NoCtor /\ strcall \in [arg : StringArgs, done : {FALSE}, ret : {FALSE}]
    /\ EXCLUDED = _EXCLUDED_AUTH /\ az_credentials = NoCred /\ cred_cloud = None
    /\ az_settings = [x \in {} |-> ""] /\ available = {} /\ instance = 0
    /\ root_handlers = <<>> /\ nextCred = 0 /\ conn = NoConn

Next ==
    \/ \E a \in LookupArgs : lookup_ioc(a)
    \/ \E a \in ConnectCalls : connect(a)
    \/ \E a \in ConnectCalls : az_connect_core(a)
    \/ AzCachedConnect

NextLookup == \E a \in LookupArgs : lookup_ioc(a)

NextAuth ==
    \/ \E a \in ConnectCalls : connect(a)
    \/ \E a \in ConnectCalls : az_connect_core(a)
    \/ AzCachedConnect

Spec == Init /\ [][Next]_vars
SpecLookup == InitLookup /\ [][NextLookup]_vars
SpecAuth == Init /\ [][NextAuth]_vars
SpecBuild == InitBuild /\ [][build_request]_vars
SpecCtor == InitCtor /\ [][construct_provider]_vars
SpecFormat == InitFormat /\ [][call_string_empty]_vars

(***************************************************************************)
(* The claims about lookup_ioc, checked under SpecLookup.                  *)
(***************************************************************************)
Called == call.outcome # None
Cached(a) == \E i \in DOMAIN cache : cache[i].key = a
CachedResult(a) == cache[CHOOSE i \in DOMAIN cache : cache[i].key = a].res

\* C1: lookup_ioc never raises to its caller: whatever happens while the request is
\* built, issued and parsed, every call returns a LookupResult.
C1_NeverRaises == Called => call.outcome = "returned"

\* C2: a LookupResult returned with status OK was populated by the HTTP-200 branch
\* (parse_results or the decode-failure defaults); a lookup that ended in a captured
\* exception is never returned with status OK.
C2_OkOnlyIfPopulated ==
    (Called /\ call.outcome = "returned" /\ call.res.status = LookupStatus.OK)
        => call.res.raw_result.kind \in {"json", "parse_problem"}

\* A call that returned has left its result as the most recent cache entry.
C3_StoredOnReturn ==
    (Called /\ call.outcome = "returned")
        => /\ cache # <<>>
           /\ cache[Len(cache)] = [key |-> call.args, res |-> call.res]
           /\ Len(cache) <= CacheMaxsize
\* A call whose argument tuple is cached returns the cached object itself.
C3_HitStep ==
    (call' # call /\ Cached(call'.args))
        => /\ call'.outcome = "returned"
           /\ call'.res = CachedResult(call'.args)
           /\ ~call'.built /\ ~call'.sent
           /\ nextId' = nextId
\* C3: a call whose argument tuple is in the cache returns the identical cached
\* object and neither builds nor issues a request, and every call that returns
\* leaves its result in the cache, whatever the outcome was (hit, non-200 response,
\* captured error, failed type check).
C3_RepeatedLookupIsCached == [](C3_StoredOnReturn) /\ [][C3_HitStep]_vars
C3_Witness ==
    /\ call.hit /\ call.outcome = "returned"
    /\ call.res.raw_result.kind = "error"

\* C9: when the type check reports the observable as invalid, lookup_ioc returns the
\* check's result as it is (with the provider name set): no request is built and none
\* is issued.
C9_InvalidReturnsAtOnce ==
    (Called /\ ~call.hit /\ call.checked # LookupStatus.OK)
        => /\ call.outcome = "returned"
           /\ ~call.built /\ ~call.sent
           /\ call.res.status = call.checked
           /\ call.res = [_check_ioc_type(call.res.id, call.args.ioc, call.args.ioc_type,
                                          call.checked)
                             EXCEPT !.provider = call.res.provider]
C9_Witness ==
    Called /\ ~call.hit /\ call.checked = LookupStatus.BAD_FORMAT /\ call.outcome = "returned"

\* The details text the claim names for each status code.
C10_Expected(s) ==
    CASE s = 404 -> "Not found."
      [] s = 401 -> "Authorization failed. Check account and key details."
      [] s = 403 -> "Request forbidden. Allowed query rate may have been exceeded."
      [] s = 500 -> "Internal Server Error"
      [] OTHER -> "Unknown HTTP status code."
\* C10: for a response whose status code s is not 200 the result has result = False,
\* status = s, raw_result = the stringified response, and details = "Not found." for
\* 404, the authorization text for 401, the rate text for 403, the reason phrase for
\* another known code and "Unknown HTTP status code." for an unknown one.
C10_Non200Result ==
    (Called /\ ~call.hit /\ call.sent /\ call.resp.raises = None
        /\ call.resp.status_code # 200)
        => /\ call.outcome = "returned"
           /\ call.res.result = FALSE
           /\ call.res.status = call.resp.status_code
           /\ call.res.raw_result.kind = "response"
           /\ call.res.raw_result.code = call.resp.status_code
           /\ call.res.details = [kind |-> "text", val |-> C10_Expected(call.resp.status_code)]
C10_Witness ==
    /\ Called /\ ~call.hit /\ call.sent /\ call.resp.raises = None
    /\ call.resp.status_code = 403 /\ call.outcome = "returned"

\* The request the call's arguments make the builder produce.
CallBuild ==
    _substitute_parms(Provider(_IOC_QUERIES, _BASE_URL, request_params),
                      call.args.ioc, call.args.ioc_type, call.args.query_type)
Decoded200 ==
    /\ Called /\ ~call.hit /\ call.sent /\ call.resp.raises = None
    /\ call.resp.status_code = 200

\* C11: a response with status 200 whose body is not valid JSON makes lookup_ioc
\* return normally with result = False, severity = information, details = {} and the
\* parse-failure message as raw_result; the decode failure neither propagates nor
\* reaches the outer except clause (no exception text in raw_result, no exception
\* arguments in details).
C11_BadJsonReturnsDefaults ==
    (Decoded200 /\ call.resp.body # "json")
        => /\ call.outcome = "returned"
           /\ call.res.result = FALSE
           /\ call.res.severity = "information"
           /\ call.res.details = [kind |-> "dict", val |-> ""]
           /\ call.res.raw_result =
                  [kind |-> "parse_problem", code |-> 0,
                   text |-> "There was a problem parsing results from this lookup"]
C11_Witness ==
    Decoded200 /\ call.resp.body = "text" /\ call.outcome = "returned"

LeastRecentlyUsed == CachedResult(Head(recency))
CachedIds(c) == {c[i].res.id : i \in DOMAIN c}

\* C18 as stated: the cache holds at most its maximum of results, and the entry a new
\* argument tuple evicts from the full cache is the one inserted earliest: every
\* result still cached was inserted after the evicted one.
C18_Original ==
    /\ Len(cache) <= CacheMaxsize
    /\ call.evicted # 0 => \A id \in CachedIds(cache) : id > call.evicted

\* A call with a new argument tuple, made with the cache full, evicts the result
\* whose argument tuple was used longest ago and nothing else.
C18_EvictStep ==
    (nextId' = nextId + 1 /\ ~Cached(call'.args) /\ Len(cache) = CacheMaxsize
        /\ call'.outcome = "returned")
        => /\ call'.evicted = LeastRecentlyUsed.id
           /\ CachedIds(cache') =
                 (CachedIds(cache) \ {LeastRecentlyUsed.id}) \cup {call'.res.id}
\* C18: the cache holds at most its maximum of results (256 in the source, CacheMaxsize
\* in the model), and the entry a new argument tuple evicts from the full cache is the
\* least recently used one: the one whose last lookup, stored or answered from the
\* cache, lies furthest back.
C18_EvictsLeastRecentlyUsed == [](Len(cache) <= CacheMaxsize) /\ [][C18_EvictStep]_vars
C18_Witness ==
    /\ call.evicted # 0 /\ Len(cache) = CacheMaxsize
    /\ \E id \in CachedIds(cache) : id < call.evicted

\* The call ended in an error that lookup_ioc captured in the result it returned.
Captured ==
    /\ Called /\ ~call.hit /\ call.checked = LookupStatus.OK
    /\ call.outcome = "returned"
    /\ call.res.raw_result.kind \in {"error", "parse_problem"}
\* The URL the call was about to request: the template's path, formatted.
AttemptedUrl ==
    LET a == call.args
        key == IF a.query_type # None THEN a.ioc_type \o "-" \o a.query_type ELSE a.ioc_type
    IN  build_url(Provider(_IOC_QUERIES, _BASE_URL, request_params), _IOC_QUERIES[key], a.ioc,
                  DictUpdate([x \in {"observable"} |-> a.ioc], request_params))

\* C17 as stated: for every captured error other than the no-template error (missing
\* placeholder, unsupported auth, unsupported verb, JSON decode error, connection
\* failure) the result's reference is the URL that was being requested; for the
\* no-template error reference is unset.
C17_Original ==
    Captured
        => IF CallBuild.exc = "LookupError"
           THEN call.res.reference = None
           ELSE call.res.reference = AttemptedUrl

\* C17: for an error captured after the request was built (unsupported verb, JSON
\* decode error, ConnectionError, a LookupError of parse_results) the result's
\* reference is the URL of the built request; for an error raised while the request
\* was being built (no template, missing placeholder, unsupported auth) reference is
\* left unset.
C17_ReferenceOnlyAfterBuild ==
    Captured
        => IF CallBuild.exc = None
           THEN call.res.reference = CallBuild.req["url"]
           ELSE call.res.reference = None
C17_Witness ==
    Captured /\ CallBuild.exc = "KeyError" /\ call.res.reference = None

(***************************************************************************)
(* The claims about the build step, checked under SpecBuild.               *)
(***************************************************************************)
\* The template the call selected, and the substitution context of the call.
BuildTemplate == build.self.ioc_query_defs[build.value_type]
BuildContext == DictUpdate([x \in {"observable"} |-> build.value], build.self._request_params)
BuildRan == build.done /\ build.value_type \in DOMAIN build.self.ioc_query_defs

\* The placeholders of a template string, of a dictionary and of a list of them.
Placeholders(tpl) == {tpl[i].s : i \in {j \in DOMAIN tpl : tpl[j].ph}}
DictPlaceholders(d) == UNION {Placeholders(d[k]) : k \in DOMAIN d}
SeqPlaceholders(q) == UNION {Placeholders(q[i]) : i \in DOMAIN q}
AllPlaceholders(t) ==
    Placeholders(t.path) \cup DictPlaceholders(t.headers) \cup DictPlaceholders(t.params)
        \cup DictPlaceholders(t.data) \cup SeqPlaceholders(t.auth_str)

\* The value of every auth field, in the template's order (each is one placeholder).
ExpectedAuth(t, ctx) == [i \in DOMAIN t.auth_str |-> ctx[t.auth_str[i][1].s]]

\* C13: a template whose authType is basic yields an auth tuple of its authFields
\* formatted against the context, in their order; a template with any other non-empty
\* authType makes the build fail with the unsupported-auth error, whatever its
\* authFields are.  (Stated for a template whose path, headers, params and body can
\* be formatted: a full-URL path that names only the observable, every placeholder
\* supplied.)
C13_AuthByType ==
    (BuildRan /\ AllPlaceholders(BuildTemplate) \subseteq DOMAIN BuildContext
        /\ (BuildTemplate.full_url => Placeholders(BuildTemplate.path) \subseteq {"observable"}))
        => /\ (BuildTemplate.auth_type = "HTTPBasic" /\ BuildTemplate.auth_str # <<>>)
                => /\ build.out.exc = None
                   /\ "auth" \in DOMAIN build.out.req
                   /\ build.out.req["auth"] = ExpectedAuth(BuildTemplate, BuildContext)
           /\ (BuildTemplate.auth_type \notin {"", "HTTPBasic"})
                => build.out.exc = "NotImplementedError"

\* C14 as stated: whenever a placeholder of the template's path, headers, params, body
\* or auth fields is missing from the substitution context, the build fails with the
\* template-substitution error.
C14_Original ==
    (BuildRan /\ ~(AllPlaceholders(BuildTemplate) \subseteq DOMAIN BuildContext))
        => build.out.exc = "KeyError"

\* The placeholders the build formats: those of the auth fields count only when the
\* template names an auth type.
FormattedPlaceholders(t) ==
    Placeholders(t.path) \cup DictPlaceholders(t.headers) \cup DictPlaceholders(t.params)
        \cup DictPlaceholders(t.data)
        \cup (IF t.auth_type # "" THEN SeqPlaceholders(t.auth_str) ELSE {})

\* C14: whenever a placeholder of the template's path, headers, params or body, or of
\* the auth fields of a template that names an auth type, is missing from the
\* substitution context, the build fails with the template-substitution error
\* (KeyError naming a placeholder of the template) and produces no request; the error differs
\* from the no-template error (LookupError), which is what a call without a template
\* gets.
C14_MissingPlaceholderFails ==
    /\ (BuildRan /\ ~(FormattedPlaceholders(BuildTemplate) \subseteq DOMAIN BuildContext))
          => /\ build.out.exc = "KeyError"
             /\ build.out.msg \in FormattedPlaceholders(BuildTemplate)
             /\ build.out.req = EmptyDict
    /\ (build.done /\ ~BuildRan) => build.out.exc = "LookupError"
C14_Witness ==
    /\ BuildRan /\ "API_ID" \notin DOMAIN BuildContext
    /\ "API_ID" \in SeqPlaceholders(BuildTemplate.auth_str)
    /\ BuildTemplate.auth_type = "OAuth"
    /\ build.out.exc = "KeyError"

\* The built URL contains the observable: it is the text before a {observable} of the
\* path, the observable, and the text after it.
UrlContainsObservable ==
    LET t == BuildTemplate
        prefix == IF t.full_url THEN "" ELSE build.self._BASE_URL
    IN  /\ "url" \in DOMAIN build.out.req
        /\ \E i \in DOMAIN t.path :
              /\ t.path[i] = Ph("observable")
              /\ build.out.req["url"] =
                    prefix \o format(SubSeq(t.path, 1, i - 1), BuildContext)
                           \o build.value
                           \o format(SubSeq(t.path, i + 1, Len(t.path)), BuildContext)

\* C15 as stated: for every registered template and every context that supplies all of
\* its placeholders the build never raises and the URL contains the observable,
\* whatever the template's fullUrl, headers, params, body, authType, authFields and verb.
C15_Original ==
    (BuildRan /\ AllPlaceholders(BuildTemplate) \subseteq DOMAIN BuildContext)
        => (build.out.exc = None /\ UrlContainsObservable)

\* C15: for every registered template whose authType is empty or basic and whose path,
\* when fullUrl is set, names no placeholder but the observable, and for every context
\* that supplies all of its placeholders, the build never raises, whatever the other
\* fields are; the URL contains the observable when the path names it.
C15_BuildSucceeds ==
    (BuildRan /\ AllPlaceholders(BuildTemplate) \subseteq DOMAIN BuildContext
        /\ BuildTemplate.auth_type \in {"", "HTTPBasic"}
        /\ (BuildTemplate.full_url => Placeholders(BuildTemplate.path) \subseteq {"observable"}))
        => /\ build.out.exc = None
           /\ build.out.verb = BuildTemplate.verb
           /\ "observable" \in Placeholders(BuildTemplate.path) => UrlContainsObservable
C15_Witness ==
    /\ BuildRan /\ build.out.exc = None
    /\ BuildTemplate.full_url /\ BuildTemplate.auth_type = "HTTPBasic"
    /\ BuildTemplate.auth_str # <<>> /\ DOMAIN BuildTemplate.params # {}
    /\ UrlContainsObservable

\* The literals of tpl and the values ctx gives its placeholders, written one after
\* the other.
ExpectedText(tpl, ctx) ==
    LET f[i \in 0..Len(tpl)] ==
            IF i = 0 THEN ""
            ELSE f[i - 1] \o (IF tpl[i].ph THEN ctx[tpl[i].s] ELSE tpl[i].s)
    IN  f[Len(tpl)]
\* The URL of a built request is the path formatted with the observable alone when
\* fullUrl is set, and otherwise the base URL followed by the path formatted against
\* the whole context.
UrlRule ==
    (BuildRan /\ build.out.exc = None)
        => build.out.req["url"] =
              IF BuildTemplate.full_url
              THEN ExpectedText(BuildTemplate.path, [x \in {"observable"} |-> build.value])
              ELSE build.self._BASE_URL \o ExpectedText(BuildTemplate.path, BuildContext)
\* The build of the claim's example: path "/ip/{observable}", not a full URL.
ExampleBuilt(base) ==
    /\ BuildRan /\ build.out.exc = None
    /\ BuildTemplate.path = <<Lit("/ip/"), Ph("observable")>> /\ ~BuildTemplate.full_url
    /\ build.self._BASE_URL = base /\ build.value = "1.2.3.4"

\* C16 as stated: the URL follows the rule above, and for path "/ip/{observable}",
\* base URL "https://api.example/" and observable "1.2.3.4" it is exactly
\* "https://api.example/ip/1.2.3.4".
C16_Original ==
    /\ UrlRule
    /\ ExampleBuilt("https://api.example/")
          => build.out.req["url"] = "https://api.example/ip/1.2.3.4"

\* C16: the URL follows the rule above; the base URL and the path are joined as they
\* are, so for path "/ip/{observable}" and observable "1.2.3.4" the URL is
\* "https://api.example//ip/1.2.3.4" with base URL "https://api.example/" and
\* "https://api.example/ip/1.2.3.4" with base URL "https://api.example".
C16_UrlIsConcatenation ==
    /\ UrlRule
    /\ ExampleBuilt("https://api.example/")
          => build.out.req["url"] = "https://api.example//ip/1.2.3.4"
    /\ ExampleBuilt("https://api.example")
          => build.out.req["url"] = "https://api.example/ip/1.2.3.4"
C16_Witness ==
    /\ ExampleBuilt("https://api.example/")
    /\ build.out.req["url"] = "https://api.example//ip/1.2.3.4"

(***************************************************************************)
(* The claim about the constructor, checked under SpecCtor.                *)
(***************************************************************************)
\* The option that supplies a required parameter.
OptionOf(param) == IF param = "API_ID" THEN "ApiID" ELSE "AuthKey"
\* The required parameters of the call's class whose option the call does not supply.
MissingRequired ==
    {p \in {ctor.cls._REQUIRED_PARAMS[i] : i \in DOMAIN ctor.cls._REQUIRED_PARAMS} :
        OptionOf(p) \notin DOMAIN ctor.kwargs}
\* Their names, quoted and separated by commas, in the order of the class's list.
MissingNamed ==
    LET req == ctor.cls._REQUIRED_PARAMS
        f[i \in 0..Len(req)] ==
            IF i = 0 THEN ""
            ELSE IF req[i] \notin MissingRequired THEN f[i - 1]
            ELSE f[i - 1] \o (IF f[i - 1] = "" THEN "" ELSE ", ") \o "'" \o req[i] \o "'"
    IN  f[Len(req)]

\* C21: constructing a provider raises the configuration error if and only if at least
\* one required parameter of its class is missing from the options supplied; the error
\* names the class and exactly the missing required parameters; with every required
\* option supplied the error is not raised.
C21_ConfigErrorIffMissing ==
    ctor.done
        => /\ (ctor.out.exc = "MsticpyConfigException") <=> (MissingRequired # {})
           /\ MissingRequired = {} => ctor.out.exc = None
           /\ MissingRequired # {}
                => ctor.out.args =
                      <<"Parameter values missing for Provider '" \o ctor.cls.name \o "'",
                        "Missing parameters are: " \o MissingNamed>>
C21_Witness ==
    /\ ctor.done /\ ctor.out.exc = "MsticpyConfigException"
    /\ ctor.cls._REQUIRED_PARAMS = <<"API_ID", "API_KEY">>
    /\ DOMAIN ctor.kwargs = {"AuthKey"} /\ ctor.kwargs["AuthKey"] = PyNone
    /\ ctor.out.args[2] = "Missing parameters are: 'API_ID'"

(***************************************************************************)
(* The claim about string_empty, checked under SpecFormat.                 *)
(***************************************************************************)
\* C22: string_empty returns True for None, for the empty string and for a string of
\* whitespace only, and False for every string with a character that is not
\* whitespace.
C22_EmptyOrWhitespace ==
    strcall.done
        => (strcall.ret <=>
              \/ strcall.arg.type = "NoneType"
              \/ \A i \in DOMAIN strcall.arg.val : strcall.arg.val[i] \in Whitespace)

(***************************************************************************)
(* The claims about the credential chain and its cache, checked under      *)
(* SpecAuth.                                                               *)
(***************************************************************************)
Connected == conn.kind = "connect" /\ conn.outcome = "returned"
ChainRun == conn.kind \in {"connect", "core"} /\ conn.runs > 0

\* C19: the log filter a connect call installs is scoped to the call: once a call has
\* returned or raised, no handler or filter added by it remains on the root logger.
C19_FilterScopedToCall ==
    (conn.kind \in {"connect", "core"} /\ conn.outcome # None) => root_handlers = <<>>

\* The sources for which the filters have a short reason.
ShortReasonSources == {"env", "cli", "msi"}
\* C20: the silent flag of each connect call governs what the call's failed sources
\* write: with silent = true nothing at all; with silent = false the short reason for
\* each failed env, CLI or managed-identity source and no raw warning.
C20_OwnSilentFlagGoverns ==
    (conn.kind = "connect" /\ conn.failed # {})
        => IF conn.args.silent
           THEN conn.diag = {}
           ELSE /\ \A s \in conn.failed \cap ShortReasonSources :
                      \E d \in conn.diag : d.source = s /\ d.kind = "short"
                /\ \A d \in conn.diag : d.kind # "raw"

\* C4: a connect call re-runs the credential chain if and only if no pair is cached,
\* or the cached token has passed its expiry, or the cloud requested by the call
\* differs from the cloud the cached pair was produced for.
C4_RerunIffInvalid ==
    Connected
        => ((conn.runs > 0)
              <=> \/ conn.prior = NoCred
                  \/ conn.expired
                  \/ conn.requested # conn.prior.modern.authority)

\* C5: with a pair cached, a connect call made before the token's expiry and for the
\* cloud the pair was produced for returns the identical pair and re-runs nothing.
C5_CachedPairReturned ==
    (Connected /\ conn.prior # NoCred /\ ~conn.expired
        /\ conn.requested = conn.prior.modern.authority)
        => (conn.runs = 0 /\ conn.ret = conn.prior)

\* C6: for a call with a non-empty auth_methods list L the sources enabled in the
\* chain it builds are exactly those named in L, whatever lists earlier calls gave.
C6_EnabledExactlyRequested ==
    (ChainRun /\ conn.args.auth_methods # NoMethods)
        => \A i \in DOMAIN conn.chains : conn.chains[i] = ToSet(conn.args.auth_methods)

\* C7: for a call without an auth_methods list the sources enabled in the chain it
\* builds are exactly those of the configured default list.
C7_DefaultListUsed ==
    (ChainRun /\ conn.args.auth_methods = NoMethods)
        => \A i \in DOMAIN conn.chains : conn.chains[i] = ToSet(default_auth_methods)

\* C8: a call whose chain has no source that yields a token fails with an auth error
\* and returns no pair.
C8_FailsWithoutToken ==
    (ChainRun /\ conn.chains[Len(conn.chains)] \cap available = {})
        => (conn.outcome = "raised" /\ conn.ret = NoCred)

\* C23: one connect call runs the credential chain at most once, whatever holds at the
\* call (no pair cached, token expired, cloud changed, or expired and changed), and
\* the pair it returns is the one that run produced.
C23_ChainRunsAtMostOnce ==
    conn.kind = "connect"
        => /\ conn.runs <= 1
           /\ (conn.runs = 1 /\ conn.outcome = "returned")
                => conn.ret.modern.enabled = conn.chains[1]

\* A construction of _AzCachedConnect that finds the instance already made yields that
\* instance and leaves the cached pair where it was.
C24_ReconstructStep ==
    (conn'.kind = "construct" /\ instance # 0)
        => (instance' = instance /\ az_credentials' = az_credentials)
\* C24: the credential cache is a singleton whose state survives being obtained again:
\* every construction yields the same instance, and a pair cached by an earlier
\* connect is still cached after _AzCachedConnect() is constructed again.
C24_StateSurvivesReconstruction == [][C24_ReconstructStep]_vars

====
